---- MODULE Spec2Model ----
(***************************************************************************)
(* A model of the distributive health-check toolkit: the checks of the     *)
(* `checks` package (New / Status / ID of every variant), the systemctl    *)
(* workers, the thunks, and the lifecycle that feeds raw parameters to     *)
(* them: register, configure, construct, execute.                          *)
(*                                                                         *)
(* Go strings are TLA+ strings.  A message built by concatenation is the   *)
(* sequence of its non-empty pieces, so the empty message "" is <<>>.      *)
(* Go's nil error is the record nil.  Go slices are indexed from 0; the    *)
(* operator Param(params, i) reads Go index i.                             *)
(***************************************************************************)
EXTENDS Integers, Sequences, FiniteSets, TLC

\* ------------------------------------------------------------------ bounds

\* the longest raw parameter list handed to a constructor
MaxParams == 3

\* the number of Status calls made on one constructed check
MaxRuns == 2

\* ------------------------------------------------------- raw parameter text

\* the raw strings a configuration may hold
RawValues ==
    {"80", "65536", "-1", "10.0.0.1", "5s", "a(b", "98C", "lo", "lo.timer", "distributived"}

\* every parameter list of at most n raw strings
ParamLists(n) == UNION {[1..k -> RawValues] : k \in 0..n}

Param(params, i) == params[i + 1]

Range(s) == {s[i] : i \in 1..Len(s)}

\* a Go string as the sequence of its non-empty pieces
Str(s) == IF s = "" THEN <<>> ELSE <<s>>

\* the value 2^n
RECURSIVE Pow2(_)
Pow2(n) == IF n = 0 THEN 1 ELSE 2 * Pow2(n - 1)

\* ------------------------------------------------------------------ errors

nil == [type |-> "nil"]

ParameterLengthError(expected, params) ==
    [type |-> "ParameterLengthError", expected |-> expected, params |-> params]

ParameterTypeError(value, expected) ==
    [type |-> "ParameterTypeError", value |-> value, expected |-> expected]

\* an error value of the os/exec or strconv packages, by its text
Err(text) == [type |-> "error", text |-> text]

\* --------------------------------------------------------- text conversions

\* the decimal digits of s read as a number; -1 when s is not all digits
DecimalValue(s) ==
    CASE s = "0" -> 0
      [] s = "1" -> 1
      [] s = "80" -> 80
      [] s = "98" -> 98
      [] s = "99" -> 99
      [] s = "65536" -> 65536
      [] OTHER -> -1

\* s without a leading sign, and whether the sign was a minus
Unsigned(s) == IF s = "-1" THEN "1" ELSE s
Negative(s) == s = "-1"

\* strconv.ParseUint(s, 10, bits): no sign allowed, the value below 2^bits
ParseUint(s, bits) ==
    LET v == DecimalValue(s) IN
    IF v < 0 THEN [val |-> 0, err |-> Err("invalid syntax")]
    ELSE IF v >= Pow2(bits)
         THEN [val |-> Pow2(bits) - 1, err |-> Err("value out of range")]
         ELSE [val |-> v, err |-> nil]

\* strconv.ParseInt(s, 10, bits): an optional sign, -2^(bits-1) <= value < 2^(bits-1)
ParseInt(s, bits) ==
    LET v == DecimalValue(Unsigned(s))
        \* the numbers of the model are below 2^30: a wider type never overflows
        lim == IF bits > 31 THEN Pow2(30) ELSE Pow2(bits - 1)
    IN  IF v < 0 THEN [val |-> 0, err |-> Err("invalid syntax")]
        ELSE IF Negative(s)
             THEN IF v > lim
                  THEN [val |-> 0 - lim, err |-> Err("value out of range")]
                  ELSE [val |-> 0 - v, err |-> nil]
             ELSE IF v >= lim
                  THEN [val |-> lim - 1, err |-> Err("value out of range")]
                  ELSE [val |-> v, err |-> nil]

\* maxStr with every "C", "c", U+00B0 and U+2103 removed
StripCelsius(s) == IF s = "98C" THEN "98" ELSE s

\* time.ParseDuration(s), in microseconds: a number followed by a unit
ParseDuration(s) ==
    CASE s = "5s" -> [val |-> 5000000, err |-> nil]
      [] s = "0μs" -> [val |-> 0, err |-> nil]
      [] OTHER -> [val |-> 0, err |-> Err("invalid duration")]

\* regexp.Compile(s): the compiled pattern is named by its source text
Compile(s) ==
    IF s = "a(b" THEN [val |-> "", err |-> Err("missing closing )")]
    ELSE [val |-> s, err |-> nil]

\* netstatus.ValidIP(s): s parses as an IPv4 or IPv6 address
ValidIP(s) == s \in {"10.0.0.1", "0.0.0.0", "::1"}

\* net.ParseIP(s): the address in canonical text form, "" for the nil IP
ParseIP(s) == IF ValidIP(s) THEN s ELSE ""

\* var noTime, _ = time.ParseDuration("0μs")
noTimeInit == ParseDuration("0μs").val

\* parsePort: a valid port number, or 0 and the error
parsePort(portStr) ==
    LET r == ParseUint(portStr, 16) IN
    IF r.err # nil \/ r.val < 0 \/ r.val > 65535
    THEN [val |-> 0, err |-> r.err]
    ELSE [val |-> r.val, err |-> nil]

\* ------------------------------------------------- construction: Check.New

\* what New hands back: the Check, the error, and the Go indices of params it read
NewRet(chk, err, read) == [chk |-> chk, err |-> err, read |-> read]

Port_New(chk, params) ==
    IF Len(params) # 1 THEN NewRet(chk, ParameterLengthError(1, params), {})
    ELSE LET r == parsePort(Param(params, 0)) IN
         IF r.err = nil THEN NewRet([chk EXCEPT !.port = r.val], nil, {0})
         ELSE NewRet(chk, ParameterTypeError(Param(params, 0), "uint16"), {0})

PortTCP_New(chk, params) ==
    IF Len(params) # 1 THEN NewRet(chk, ParameterLengthError(1, params), {})
    ELSE LET r == parsePort(Param(params, 0)) IN
         IF r.err = nil THEN NewRet([chk EXCEPT !.port = r.val], nil, {0})
         ELSE NewRet(chk, ParameterTypeError(Param(params, 0), "uint16"), {0})

PortUDP_New(chk, params) ==
    IF Len(params) # 1 THEN NewRet(chk, ParameterLengthError(1, params), {})
    ELSE LET r == parsePort(Param(params, 0)) IN
         IF r.err = nil THEN NewRet([chk EXCEPT !.port = r.val], nil, {0})
         ELSE NewRet(chk, ParameterTypeError(Param(params, 0), "uint16"), {0})

InterfaceExists_New(chk, params) ==
    IF Len(params) # 1 THEN NewRet(chk, ParameterLengthError(1, params), {})
    ELSE NewRet([chk EXCEPT !.name = Param(params, 0)], nil, {0})

Up_New(chk, params) ==
    IF Len(params) # 1 THEN NewRet(chk, ParameterLengthError(1, params), {})
    ELSE NewRet([chk EXCEPT !.name = Param(params, 0)], nil, {0})

IP4_New(chk, params) ==
    IF Len(params) # 2 THEN NewRet(chk, ParameterLengthError(2, params), {})
    ELSE IF ~ValidIP(Param(params, 1))
         THEN NewRet(chk, ParameterTypeError(Param(params, 1), "IP"), {1})
         ELSE NewRet([chk EXCEPT !.name = Param(params, 0),
                                 !.ip = ParseIP(Param(params, 1))], nil, {0, 1})

IP6_New(chk, params) ==
    IF Len(params) # 2 THEN NewRet(chk, ParameterLengthError(2, params), {})
    ELSE IF ~ValidIP(Param(params, 1))
         THEN NewRet(chk, ParameterTypeError(Param(params, 1), "IP"), {1})
         ELSE NewRet([chk EXCEPT !.name = Param(params, 0),
                                 !.ip = ParseIP(Param(params, 1))], nil, {0, 1})

Gateway_New(chk, params) ==
    IF Len(params) # 1 THEN NewRet(chk, ParameterLengthError(1, params), {})
    ELSE IF ~ValidIP(Param(params, 0))
         THEN NewRet(chk, ParameterTypeError(Param(params, 0), "IP"), {0})
         ELSE NewRet([chk EXCEPT !.ip = ParseIP(Param(params, 0))], nil, {0})

GatewayInterface_New(chk, params) ==
    IF Len(params) # 1 THEN NewRet(chk, ParameterLengthError(1, params), {})
    ELSE NewRet([chk EXCEPT !.name = Param(params, 0)], nil, {0})

Host_New(chk, params) ==
    IF Len(params) # 1 THEN NewRet(chk, ParameterLengthError(1, params), {})
    ELSE NewRet([chk EXCEPT !.hostname = Param(params, 0)], nil, {0})

TCP_New(chk, params) ==
    IF Len(params) # 1 THEN NewRet(chk, ParameterLengthError(1, params), {})
    ELSE NewRet([chk EXCEPT !.name = Param(params, 0)], nil, {0})

UDP_New(chk, params) ==
    IF Len(params) # 1 THEN NewRet(chk, ParameterLengthError(1, params), {})
    ELSE NewRet([chk EXCEPT !.name = Param(params, 0)], nil, {0})

\* chk.name is assigned before the duration is parsed
TCPTimeout_New(chk, params) ==
    IF Len(params) # 2 THEN NewRet(chk, ParameterLengthError(2, params), {})
    ELSE LET named == [chk EXCEPT !.name = Param(params, 0)]
             d == ParseDuration(Param(params, 1))
         IN  IF d.err # nil
             THEN NewRet(named, ParameterTypeError(Param(params, 1), "time.Duration"), {0, 1})
             ELSE NewRet([named EXCEPT !.timeout = d.val], nil, {0, 1})

UDPTimeout_New(chk, params) ==
    IF Len(params) # 2 THEN NewRet(chk, ParameterLengthError(2, params), {})
    ELSE LET named == [chk EXCEPT !.name = Param(params, 0)]
             d == ParseDuration(Param(params, 1))
         IN  IF d.err # nil
             THEN NewRet(named, ParameterTypeError(Param(params, 1), "time.Duration"), {0, 1})
             ELSE NewRet([named EXCEPT !.timeout = d.val], nil, {0, 1})

RoutingTableDestination_New(chk, params) ==
    IF Len(params) # 1 THEN NewRet(chk, ParameterLengthError(1, params), {})
    ELSE IF ~ValidIP(Param(params, 0))
         THEN NewRet(chk, ParameterTypeError(Param(params, 0), "IP address"), {0})
         ELSE NewRet([chk EXCEPT !.ip = ParseIP(Param(params, 0))], nil, {0})

RoutingTableInterface_New(chk, params) ==
    IF Len(params) # 1 THEN NewRet(chk, ParameterLengthError(1, params), {})
    ELSE NewRet([chk EXCEPT !.name = Param(params, 0)], nil, {0})

\* the parameter is stored as a string; no IP validation is made
RoutingTableGateway_New(chk, params) ==
    IF Len(params) # 1 THEN NewRet(chk, ParameterLengthError(1, params), {})
    ELSE NewRet([chk EXCEPT !.name = Param(params, 0)], nil, {0})

\* chk.urlstr is assigned before the regexp is compiled
ResponseMatches_New(chk, params) ==
    IF Len(params) # 2 THEN NewRet(chk, ParameterLengthError(2, params), {})
    ELSE LET withURL == [chk EXCEPT !.urlstr = Param(params, 0)]
             re == Compile(Param(params, 1))
         IN  IF re.err # nil
             THEN NewRet(withURL, ParameterTypeError(Param(params, 1), "regexp"), {0, 1})
             ELSE NewRet([withURL EXCEPT !.re = re.val], nil, {0, 1})

ResponseMatchesInsecure_New(chk, params) ==
    IF Len(params) # 2 THEN NewRet(chk, ParameterLengthError(2, params), {})
    ELSE LET withURL == [chk EXCEPT !.urlstr = Param(params, 0)]
             re == Compile(Param(params, 1))
         IN  IF re.err # nil
             THEN NewRet(withURL, ParameterTypeError(Param(params, 1), "regexp"), {0, 1})
             ELSE NewRet([withURL EXCEPT !.re = re.val], nil, {0, 1})

Command_New(chk, params) ==
    IF Len(params) # 1 THEN NewRet(chk, ParameterLengthError(1, params), {})
    ELSE NewRet([chk EXCEPT !.Command = Param(params, 0)], nil, {0})

\* the regexp is compiled before any field is assigned
CommandOutputMatches_New(chk, params) ==
    IF Len(params) # 2 THEN NewRet(chk, ParameterLengthError(2, params), {})
    ELSE LET re == Compile(Param(params, 1)) IN
         IF re.err # nil
         THEN NewRet(chk, ParameterTypeError(Param(params, 1), "regexp"), {1})
         ELSE NewRet([chk EXCEPT !.re = re.val, !.Command = Param(params, 0)], nil, {0, 1})

Running_New(chk, params) ==
    IF Len(params) # 1 THEN NewRet(chk, ParameterLengthError(1, params), {})
    ELSE NewRet([chk EXCEPT !.name = Param(params, 0)], nil, {0})

Temp_New(chk, params) ==
    IF Len(params) # 1 THEN NewRet(chk, ParameterLengthError(1, params), {})
    ELSE LET maxInt == ParseInt(StripCelsius(Param(params, 0)), 16) IN
         IF maxInt.err # nil \/ maxInt.val < 0
         THEN NewRet(chk, ParameterTypeError(Param(params, 0), "+int16"), {0})
         ELSE NewRet([chk EXCEPT !.max = maxInt.val], nil, {0})

Module_New(chk, params) ==
    IF Len(params) # 1 THEN NewRet(chk, ParameterLengthError(1, params), {})
    ELSE NewRet([chk EXCEPT !.name = Param(params, 0)], nil, {0})

KernelParameter_New(chk, params) ==
    IF Len(params) # 1 THEN NewRet(chk, ParameterLengthError(1, params), {})
    ELSE NewRet([chk EXCEPT !.name = Param(params, 0)], nil, {0})

\* PHPConfig.New testing only for too few parameters
PHPConfig_NewAtLeast(chk, params) ==
    IF Len(params) < 2 THEN NewRet(chk, ParameterLengthError(2, params), {})
    ELSE NewRet([chk EXCEPT !.variable = Param(params, 0),
                            !.value = Param(params, 1)], nil, {0, 1})

PHPConfig_New(chk, params) ==
    IF Len(params) # 2 THEN NewRet(chk, ParameterLengthError(2, params), {})
    ELSE NewRet([chk EXCEPT !.variable = Param(params, 0),
                            !.value = Param(params, 1)], nil, {0, 1})

\* ------------------------------------------------------------ the variants

\* the check types of the checks package, in source order
Checks ==
    <<"Port", "PortTCP", "PortUDP", "InterfaceExists", "Up", "IP4", "IP6",
      "Gateway", "GatewayInterface", "Host", "TCP", "UDP", "TCPTimeout",
      "UDPTimeout", "RoutingTableDestination", "RoutingTableInterface",
      "RoutingTableGateway", "ResponseMatches", "ResponseMatchesInsecure",
      "Command", "CommandOutputMatches", "Running", "Temp", "Module",
      "KernelParameter", "PHPConfig">>

CheckNames == Range(Checks)

\* the zero value of each check struct: the receiver New is called on
Zero(v) ==
    CASE v \in {"Port", "PortTCP", "PortUDP"} -> [port |-> 0]
      [] v \in {"InterfaceExists", "Up", "GatewayInterface", "TCP", "UDP",
                "RoutingTableInterface", "RoutingTableGateway", "Running",
                "Module", "KernelParameter"} -> [name |-> ""]
      [] v \in {"IP4", "IP6"} -> [name |-> "", ip |-> ""]
      [] v \in {"Gateway", "RoutingTableDestination"} -> [ip |-> ""]
      [] v = "Host" -> [hostname |-> ""]
      [] v \in {"TCPTimeout", "UDPTimeout"} -> [name |-> "", timeout |-> 0]
      [] v \in {"ResponseMatches", "ResponseMatchesInsecure"} -> [urlstr |-> "", re |-> ""]
      [] v = "Command" -> [Command |-> ""]
      [] v = "CommandOutputMatches" -> [Command |-> "", re |-> ""]
      [] v = "Temp" -> [max |-> 0]
      [] v = "PHPConfig" -> [variable |-> "", value |-> ""]

\* chk.New(params), dispatched on the dynamic type of the receiver
New(v, chk, params) ==
    CASE v = "Port" -> Port_New(chk, params)
      [] v = "PortTCP" -> PortTCP_New(chk, params)
      [] v = "PortUDP" -> PortUDP_New(chk, params)
      [] v = "InterfaceExists" -> InterfaceExists_New(chk, params)
      [] v = "Up" -> Up_New(chk, params)
      [] v = "IP4" -> IP4_New(chk, params)
      [] v = "IP6" -> IP6_New(chk, params)
      [] v = "Gateway" -> Gateway_New(chk, params)
      [] v = "GatewayInterface" -> GatewayInterface_New(chk, params)
      [] v = "Host" -> Host_New(chk, params)
      [] v = "TCP" -> TCP_New(chk, params)
      [] v = "UDP" -> UDP_New(chk, params)
      [] v = "TCPTimeout" -> TCPTimeout_New(chk, params)
      [] v = "UDPTimeout" -> UDPTimeout_New(chk, params)
      [] v = "RoutingTableDestination" -> RoutingTableDestination_New(chk, params)
      [] v = "RoutingTableInterface" -> RoutingTableInterface_New(chk, params)
      [] v = "RoutingTableGateway" -> RoutingTableGateway_New(chk, params)
      [] v = "ResponseMatches" -> ResponseMatches_New(chk, params)
      [] v = "ResponseMatchesInsecure" -> ResponseMatchesInsecure_New(chk, params)
      [] v = "Command" -> Command_New(chk, params)
      [] v = "CommandOutputMatches" -> CommandOutputMatches_New(chk, params)
      [] v = "Running" -> Running_New(chk, params)
      [] v = "Temp" -> Temp_New(chk, params)
      [] v = "Module" -> Module_New(chk, params)
      [] v = "KernelParameter" -> KernelParameter_New(chk, params)
      [] v = "PHPConfig" -> PHPConfig_New(chk, params)

\* chk.ID()
ID(v) ==
    CASE v \in {"RoutingTableGateway", "ResponseMatches", "ResponseMatchesInsecure"}
           -> "RoutingTableDestination"
      [] OTHER -> v

\* --------------------------------------------------- results of an execution

\* a (code, message, cause) triple handed back to the caller
Return(code, message, cause) ==
    [kind |-> "return", code |-> code, message |-> message, cause |-> cause]

\* log.Fatal: the message is logged and the process exits; nothing is returned
Fatal(msg) == [kind |-> "fatal", code |-> 1, message |-> <<msg>>, cause |-> nil]

\* a Go run-time panic (index or slice bound out of range): the process dies
Panic(msg) == [kind |-> "panic", code |-> 2, message |-> <<msg>>, cause |-> nil]

\* errutil.Success()
Success == Return(0, <<>>, nil)

\* errutil.GenericError / wrkutils.GenericError: code 1, the message followed by
\* the specified value and the actual observed values
GenericError(msg, specified, actual) ==
    Return(1, Str(msg) \o <<"Specified:">> \o Str(specified) \o <<"Actual:">> \o actual, nil)

\* errutil.ExecError / wrkutils.ExecError / fatal(err): fatal when err is not nil
ExecError(err) == err # nil

\* errutil.IndexError: fatal when index i is not below the length of slc
IndexError(i, slc) == i >= Len(slc)

\* tabular.StrIn: str is an element of slice
StrIn(str, slice) == \E i \in 1..Len(slice) : slice[i] = str

\* fmt.Sprint of an integer
Sprint(n) == ToString(n)

\* fmt.Sprint applied to every element of a slice
RECURSIVE SprintAll(_)
SprintAll(ns) == IF ns = <<>> THEN <<>> ELSE <<Sprint(Head(ns))>> \o SprintAll(Tail(ns))

\* strings.Contains(s, sub) over the texts of the model
ContainsPairs ==
    { <<"exec: \"bash\": executable file not found in $PATH", "not found in $PATH">>,
      <<"exec: \"systemctl\": executable file not found in $PATH", "not found in $PATH">>,
      <<"exec: \"dpkg\": executable file not found in $PATH", "not found">>,
      <<"exec: \"rpm\": executable file not found in $PATH", "not found">>,
      <<"exec: \"pacman\": executable file not found in $PATH", "not found">>,
      <<"exit status 255", "255">>,
      <<"/usr/bin/distributive", "distributive">>,
      <<"hello world", "lo">>,
      <<"Package: lo", "lo">>,
      <<"root 1 lo", "lo">>,
      <<"root 3 login", "lo">>,
      <<"distributived", "distributive">>,
      <<"root 4 distributived", "distributived">>,
      <<"root 1 lo\nroot 2 distributive ", "lo">>,
      <<"root 1 lo\nroot 2 distributive ", "distributive">>,
      <<"root 2 distributive ", "distributive">> }

Contains(s, sub) == sub = "" \/ s = sub \/ <<s, sub>> \in ContainsPairs

\* re.Match(text): the patterns of the model hold no operator but ".", so they
\* match where they occur
Match(re, text) == Contains(text, re)

\* ------------------------------------------------- the observed system state

\* the table tabular.ProbabalisticSplit makes of the output of `route -n`:
\* a title line, the header row, the data rows
RouteTitle == <<"Kernel", "IP", "routing", "table">>
RouteHeader == <<"Destination", "Gateway", "Iface">>
RouteVia == <<"0.0.0.0", "10.0.0.1", "lo">>
RouteLocal == <<"10.0.0.0", "0.0.0.0", "eth0">>
RouteOther == <<"10.0.0.128", "10.0.0.10", "lo0">>
RouteHost == <<"10.0.0.1", "0.0.0.0", "lo">>

RouteTables ==
    { <<>>,
      <<RouteTitle, RouteHeader>>,
      <<RouteTitle, RouteHeader, RouteVia>>,
      <<RouteTitle, RouteHeader, RouteLocal, RouteVia>>,
      <<RouteTitle, RouteHeader, RouteLocal, RouteOther, RouteVia>>,
      <<RouteTitle, RouteHeader, RouteHost>> }

\* the network interfaces netstatus.GetInterfaces reports
Loopback == [Name |-> "lo", up |-> TRUE, ips |-> <<"127.0.0.1", "::1">>]
Ether == [Name |-> "eth0", up |-> FALSE, ips |-> <<"10.0.0.1">>]
Bridge == [Name |-> "lo", up |-> FALSE, ips |-> <<"10.0.0.1">>]
Tunnel == [Name |-> "lo0", up |-> TRUE, ips |-> <<"10.0.0.10">>]

InterfaceLists == { <<>>, <<Loopback>>, <<Bridge, Ether>>, <<Tunnel>> }

\* the open ports netstatus.OpenPorts reports for one protocol
PortLists == { <<>>, <<22>>, <<80>>, <<22, 80>> }

\* how long a dial takes, in microseconds; -1 when the host cannot be reached
\* (env.latency is the dial a check makes, env.redial what dialling again would take)
Latencies == { -1, 1000, 9000000 }

\* what running the shell command does: whether it starts, how it ends, its output
CommandRuns ==
    { [start |-> "exec: \"bash\": executable file not found in $PATH", wait |-> "none", status |-> 0, out |-> ""],
      [start |-> "fork/exec /bin/bash: resource temporarily unavailable", wait |-> "none", status |-> 0, out |-> ""],
      [start |-> "", wait |-> "ok", status |-> 0, out |-> "hello world"],
      [start |-> "", wait |-> "exit", status |-> 3, out |-> ""],
      [start |-> "", wait |-> "signal", status |-> -1, out |-> "hello world"],
      [start |-> "", wait |-> "io", status |-> 0, out |-> ""] }

\* the state every probe reads; a check reads only the fields of its own probe
DefaultEnv ==
    [ tcp |-> <<>>, udp |-> <<>>, ifaces |-> <<>>,
      route |-> <<RouteTitle, RouteHeader>>,
      route2 |-> <<RouteTitle, RouteHeader>>,
      resolvable |-> {}, latency |-> -1, redial |-> -1, body |-> "",
      cmd |-> [start |-> "", wait |-> "ok", status |-> 0, out |-> "hello world"],
      ps |-> [err |-> nil, column |-> <<>>, text |-> ""],
      sensors |-> [err |-> nil, lines |-> <<>>],
      lsmod |-> [err |-> nil, column |-> <<>>], sysctl |-> nil,
      php |-> [err |-> nil, out |-> ""],
      managers |-> {}, pkgout |-> "",
      systemctl |-> "ok", show |-> [active |-> FALSE, loaded |-> FALSE],
      sockets |-> <<>>, timers |-> [active |-> <<>>, all |-> <<>>],
      unitfiles |-> <<>>, unitfiles2 |-> <<>> ]

\* ------------------------------------------------------ execution: Status

\* netstatus.PortOpen(proto, port)
PortOpen(env, proto, port) ==
    \E i \in 1..Len(env[proto]) : env[proto][i] = port

\* Port.Status asking for the TCP ports only
Port_StatusTCPOnly(chk, env) ==
    IF PortOpen(env, "tcp", chk.port) THEN Success
    ELSE GenericError("Port not open", Sprint(chk.port), SprintAll(env.tcp \o env.udp))

Port_Status(chk, env) ==
    IF PortOpen(env, "tcp", chk.port) \/ PortOpen(env, "udp", chk.port)
    THEN Success
    ELSE LET openPorts == env.tcp \o env.udp IN
         GenericError("Port not open", Sprint(chk.port), SprintAll(openPorts))

PortTCP_Status(chk, env) ==
    IF PortOpen(env, "tcp", chk.port) THEN Success
    ELSE GenericError("Port not open", Sprint(chk.port), SprintAll(env.tcp))

PortUDP_Status(chk, env) ==
    IF PortOpen(env, "udp", chk.port) THEN Success
    ELSE GenericError("Port not open", Sprint(chk.port), SprintAll(env.udp))

\* the names of the interfaces that satisfy keep, in order
RECURSIVE InterfaceNames(_, _)
InterfaceNames(ifaces, onlyUp) ==
    IF ifaces = <<>> THEN <<>>
    ELSE (IF onlyUp /\ ~Head(ifaces).up THEN <<>> ELSE <<Head(ifaces).Name>>)
         \o InterfaceNames(Tail(ifaces), onlyUp)

InterfaceExists_Status(chk, env) ==
    LET interfaces == InterfaceNames(env.ifaces, FALSE) IN
    IF \E i \in 1..Len(interfaces) : interfaces[i] = chk.name THEN Success
    ELSE GenericError("Interface does not exist", chk.name, interfaces)

Up_Status(chk, env) ==
    LET upInterfaces == InterfaceNames(env.ifaces, TRUE) IN
    IF StrIn(chk.name, upInterfaces) THEN Success
    ELSE GenericError("Interface is not up", chk.name, upInterfaces)

\* netstatus.InterfaceIPs(name): the addresses of the interfaces of that name
RECURSIVE InterfaceIPs(_, _)
InterfaceIPs(ifaces, name) ==
    IF ifaces = <<>> THEN <<>>
    ELSE (IF Head(ifaces).Name = name THEN Head(ifaces).ips ELSE <<>>)
         \o InterfaceIPs(Tail(ifaces), name)

\* the version argument is not read
ipCheck(env, name, address, version) ==
    LET ips == InterfaceIPs(env.ifaces, name) IN
    IF \E i \in 1..Len(ips) : ips[i] = address THEN Success
    ELSE GenericError("Interface does not have IP", address, ips)

IP4_Status(chk, env) == ipCheck(env, chk.name, chk.ip, 4)

IP6_Status(chk, env) == ipCheck(env, chk.name, chk.ip, 6)

\* tabular.GetColumnByHeader(name, table): the cells under the header name
ColumnIndex(name, header) == CHOOSE i \in 1..Len(header) : header[i] = name

GetColumnByHeader(name, table) ==
    [r \in 1..(Len(table) - 1) |-> table[r + 1][ColumnIndex(name, table[1])]]

\* RoutingTableColumn: fatal when the table is empty, else the named column of
\* the table without its title line
RoutingTableFatal(env) == Len(env.route) < 1

RoutingTableColumn(env, name) == GetColumnByHeader(name, Tail(env.route))

\* the last element of ips that is not "0.0.0.0"
LastNonZero(ips) ==
    IF \E i \in 1..Len(ips) : ips[i] # "0.0.0.0"
    THEN CHOOSE i \in 1..Len(ips) :
            ips[i] # "0.0.0.0" /\ \A j \in (i + 1)..Len(ips) : ips[j] = "0.0.0.0"
    ELSE 0

\* the first element of ips that is not "0.0.0.0", with its index; index 0 when none
FirstNonZero(ips) ==
    IF \E i \in 1..Len(ips) : ips[i] # "0.0.0.0"
    THEN CHOOSE i \in 1..Len(ips) :
            ips[i] # "0.0.0.0" /\ \A j \in 1..(i - 1) : ips[j] = "0.0.0.0"
    ELSE 0

Gateway_Status(chk, env) ==
    IF RoutingTableFatal(env)
    THEN Fatal("Routing table was not available or not properly parsed")
    ELSE LET ips == RoutingTableColumn(env, "Gateway")
             i == FirstNonZero(ips)
             GatewayIP == IF i = 0 THEN "0.0.0.0" ELSE ips[i]
         IN  IF chk.ip = GatewayIP THEN Success
             ELSE GenericError("Gateway does not have address", chk.ip, <<GatewayIP>>)

\* the two columns come from two runs of `route -n`: env.route, then env.route2
GatewayInterface_Status(chk, env) ==
    IF RoutingTableFatal(env) \/ RoutingTableFatal([route |-> env.route2])
    THEN Fatal("Routing table was not available or not properly parsed")
    ELSE LET ips == RoutingTableColumn(env, "Gateway")
             names == RoutingTableColumn([route |-> env.route2], "Iface")
             i == FirstNonZero(ips)
         IN  IF i # 0 /\ IndexError(i - 1, names)
             THEN Fatal("Fewer names in kernel routing table than IPs")
             ELSE LET iface == IF i = 0 THEN "" ELSE names[i] IN
                  IF chk.name = iface THEN Success
                  ELSE GenericError("Default Gateway does not operate on interface",
                                    chk.name, Str(iface))

Host_Status(chk, env) ==
    IF chk.hostname \in env.resolvable THEN Success
    ELSE Return(1, <<"Host cannot be resolved: ">> \o Str(chk.hostname), nil)

\* netstatus.CanConnect(host, protocol, timeout): the dial succeeds, and within
\* the timeout when one is given (0 means none)
CanConnect(env, host, protocol, timeout) ==
    env.latency >= 0 /\ (timeout = 0 \/ env.latency <= timeout)

\* connectionCheck dialling a second time when the first dial fails
connectionCheckRetrying(env, host, protocol, timeout) ==
    IF \/ CanConnect(env, host, protocol, timeout)
       \/ CanConnect([env EXCEPT !.latency = env.redial], host, protocol, timeout)
    THEN Success
    ELSE Return(1, <<"Could not connect over ", protocol, " to host: ">> \o Str(host), nil)

connectionCheck(env, host, protocol, timeout) ==
    IF CanConnect(env, host, protocol, timeout) THEN Success
    ELSE Return(1, <<"Could not connect over ", protocol, " to host: ">> \o Str(host), nil)

TCP_Status(chk, env, noTime) == connectionCheck(env, chk.name, "TCP", noTime)

UDP_Status(chk, env, noTime) == connectionCheck(env, chk.name, "UDP", noTime)

TCPTimeout_Status(chk, env) == connectionCheck(env, chk.name, "TCP", chk.timeout)

UDPTimeout_Status(chk, env) == connectionCheck(env, chk.name, "UDP", chk.timeout)

RoutingTableMatch(env, col, str) ==
    IF RoutingTableFatal(env)
    THEN Fatal("Routing table was not available or not properly parsed")
    ELSE LET column == RoutingTableColumn(env, col) IN
         IF StrIn(str, column) THEN Success
         ELSE GenericError("Not found in routing table", str, column)

\* chk.ip.To4().String(): the model's addresses are in their canonical text form;
\* an address with no 4-byte form prints as "<nil>"
To4String(ip) == IF ip = "::1" THEN "<nil>" ELSE ip

RoutingTableDestination_Status(chk, env) ==
    RoutingTableMatch(env, "Destination", To4String(chk.ip))

RoutingTableInterface_Status(chk, env) == RoutingTableMatch(env, "Iface", chk.name)

RoutingTableGateway_Status(chk, env) == RoutingTableMatch(env, "Gateway", chk.name)

\* chkutil.URLToBytes(urlstr, secure): the body of the response
ResponseMatchesGeneral(env, urlstr, re, secure) ==
    LET body == env.body IN
    IF Match(re, body) THEN Success
    ELSE GenericError("Response didn't match regexp", re, Str(body))

ResponseMatches_Status(chk, env) == ResponseMatchesGeneral(env, chk.urlstr, chk.re, TRUE)

ResponseMatchesInsecure_Status(chk, env) ==
    ResponseMatchesGeneral(env, chk.urlstr, chk.re, FALSE)

\* the error of cmd.Start(), cmd.Wait() and cmd.CombinedOutput() for a run
StartErr(run) == IF run.start = "" THEN nil ELSE Err(run.start)

WaitErr(run) ==
    CASE run.wait = "ok" -> nil
      [] run.wait = "exit" -> Err("exit status")
      [] run.wait = "signal" -> Err("signal: killed")
      [] OTHER -> Err("wait: i/o error")

CombinedOutputErr(run) == IF StartErr(run) # nil THEN StartErr(run) ELSE WaitErr(run)

\* Command.Status with the code left at 0 when the command cannot be started
Command_StatusNoCode(chk, env) ==
    LET err == IF env.cmd.start = "" THEN nil ELSE Err(env.cmd.start) IN
    IF err # nil /\ Contains(err.text, "not found in $PATH")
    THEN Return(1, <<"Executable not found: ">> \o Str(chk.Command), nil)
    ELSE IF err # nil THEN Return(0, <<>>, err)
    ELSE IF env.cmd.wait # "ok"
    THEN Return(1, <<"Command exited with non-zero exit code:">>, nil)
    ELSE Success

\* Command.Status handing the exit status of the command back as its code
Command_StatusExitCode(chk, env) ==
    LET err == StartErr(env.cmd) IN
    IF err # nil /\ Contains(err.text, "not found in $PATH")
    THEN Return(1, <<"Executable not found: ">> \o Str(chk.Command), nil)
    ELSE IF err # nil THEN Return(1, <<>>, err)
    ELSE IF WaitErr(env.cmd) # nil
    THEN LET status == IF env.cmd.wait \in {"exit", "signal"} THEN env.cmd.status ELSE 0
             exitCode == IF status = 0 THEN 1 ELSE status
         IN  Return(exitCode, <<"Command exited with non-zero exit code:",
                                "\n\tCommand: ">> \o Str(chk.Command)
                              \o <<"\n\tExit code: ", Sprint(exitCode), "\n\tOutput: ">>, nil)
    ELSE Success

\* cmd.CombinedOutput() on a command that has already run fails with
\* "exec: already started" and yields no output
Command_Status(chk, env) ==
    LET err == StartErr(env.cmd) IN
    IF err # nil /\ Contains(err.text, "not found in $PATH")
    THEN Return(1, <<"Executable not found: ">> \o Str(chk.Command), nil)
    ELSE IF err # nil THEN Return(1, <<>>, err)
    ELSE IF WaitErr(env.cmd) # nil
    THEN LET status == IF env.cmd.wait \in {"exit", "signal"} THEN env.cmd.status ELSE 0
             exitCode == IF status = 0 THEN 1 ELSE status
             out == ""
         IN  Return(1, <<"Command exited with non-zero exit code:",
                         "\n\tCommand: ">> \o Str(chk.Command)
                       \o <<"\n\tExit code: ", Sprint(exitCode), "\n\tOutput: ">>
                       \o Str(out), nil)
    ELSE Success

CommandOutputMatches_Status(chk, env) ==
    LET out == env.cmd.out
        err == CombinedOutputErr(env.cmd)
    IN  IF err # nil /\ ExecError(err) THEN Fatal("Failed to execute command")
        ELSE IF Match(chk.re, out) THEN Success
        ELSE GenericError("Command output did not match regexp", chk.re, Str(out))

\* chkutil.CommandColumnNoHeader / wrkutils.CommandColumnNoHeader: the column of
\* the command's output; the command failing is an ExecError
CommandColumnFatal(run) == ExecError(run.err)

\* the elements of Commands that do not contain "distributive"
RECURSIVE NotContaining(_, _)
NotContaining(Commands, sub) ==
    IF Commands = <<>> THEN <<>>
    ELSE (IF ~Contains(Head(Commands), sub) THEN <<Head(Commands)>> ELSE <<>>)
         \o NotContaining(Tail(Commands), sub)

Running_Status(chk, env) ==
    IF CommandColumnFatal(env.ps) THEN Fatal("Failed to execute command")
    ELSE LET Commands == env.ps.column
             filtered == NotContaining(Commands, "distributive")
         IN  IF StrIn(chk.name, filtered) THEN Success
             ELSE GenericError("Process not Running", chk.name, filtered)

\* the lines `sensors` prints
AdapterLine == "Adapter: ISA adapter"
Core0Cool == "Core 0:  +40.0 C  (high = +80.0 C)"
Core0Hot == "Core 0:  +98.0 C  (high = +80.0 C)"
Core1Cool == "Core 1:  +40.0 C  (high = +80.0 C)"
Core0Huge == "Core 0:  +99999999999999999999.0 C  (high = +80.0 C)"
Core0Cold == "Core 0:  -99.0 C  (high = +80.0 C)"

\* the Temp group of Core\s\d+:\s+[\+\-](?P<Temp>\d+)\.*\d*(°|\s)C in line: the
\* digits that follow the sign; "" when the line does not match
CoreTempGroup(line) ==
    CASE line \in {Core0Cool, Core1Cool} -> "40"
      [] line = Core0Hot -> "98"
      [] line = Core0Cold -> "99"
      [] line = Core0Huge -> "99999999999999999999"
      [] OTHER -> ""

\* strconv.ParseInt(s, 10, 64) of a Temp group
ParseTemp(s) ==
    IF s = "99999999999999999999"
    THEN [val |-> 0, err |-> Err("value out of range")]
    ELSE IF s = "40" THEN [val |-> 40, err |-> nil] ELSE ParseInt(s, 64)

\* allCoreTemps: the temperature of every line that matches, in order
RECURSIVE allCoreTemps(_)
allCoreTemps(lines) ==
    IF lines = <<>> THEN <<>>
    ELSE (IF CoreTempGroup(Head(lines)) # ""
          THEN <<ParseTemp(CoreTempGroup(Head(lines))).val>> ELSE <<>>)
         \o allCoreTemps(Tail(lines))

Temp_Status(chk, env) ==
    IF ExecError(env.sensors.err) THEN Fatal("Failed to execute command")
    ELSE IF \E i \in 1..Len(env.sensors.lines) :
               /\ CoreTempGroup(env.sensors.lines[i]) # ""
               /\ ParseTemp(CoreTempGroup(env.sensors.lines[i])).err # nil
    THEN Fatal("Couldn't parse integer from sensors output")
    ELSE LET Temps == allCoreTemps(env.sensors.lines) IN
         IF IndexError(0, Temps) THEN Fatal("No such core available")
         ELSE LET Temp == Temps[1] IN
              IF Temp < chk.max THEN Success
              ELSE GenericError("Core Temp exceeds defined maximum",
                                Sprint(chk.max), <<Sprint(Temp)>>)

Module_Status(chk, env) ==
    IF CommandColumnFatal(env.lsmod) THEN Fatal("Failed to execute command")
    ELSE LET Modules == env.lsmod.column IN
         IF StrIn(chk.name, Modules) THEN Success
         ELSE GenericError("Module is not loaded", chk.name, Modules)

\* parameterSet: false when the error of sysctl mentions 255, an ExecError for
\* any other error, true otherwise
KernelParameter_Status(chk, env) ==
    LET err == env.sysctl IN
    IF err # nil /\ Contains(err.text, "255")
    THEN Return(1, <<"Kernel parameter not set: ">> \o Str(chk.name), nil)
    ELSE IF err # nil /\ ExecError(err) THEN Fatal("Failed to execute command")
    ELSE Success

PHPConfig_Status(chk, env) ==
    IF env.php.err # nil /\ ExecError(env.php.err) THEN Fatal("Failed to execute command")
    ELSE LET actualValue == env.php.out IN
         IF actualValue = chk.value THEN Success
         ELSE IF actualValue = ""
              THEN GenericError("PHP configuration variable not set",
                                chk.value, Str(actualValue))
              ELSE GenericError("PHP variable did not match expected value",
                                chk.value, Str(actualValue))

\* chk.Status(), dispatched on the dynamic type of the receiver
Status(v, chk, env, noTime) ==
    CASE v = "Port" -> Port_Status(chk, env)
      [] v = "PortTCP" -> PortTCP_Status(chk, env)
      [] v = "PortUDP" -> PortUDP_Status(chk, env)
      [] v = "InterfaceExists" -> InterfaceExists_Status(chk, env)
      [] v = "Up" -> Up_Status(chk, env)
      [] v = "IP4" -> IP4_Status(chk, env)
      [] v = "IP6" -> IP6_Status(chk, env)
      [] v = "Gateway" -> Gateway_Status(chk, env)
      [] v = "GatewayInterface" -> GatewayInterface_Status(chk, env)
      [] v = "Host" -> Host_Status(chk, env)
      [] v = "TCP" -> TCP_Status(chk, env, noTime)
      [] v = "UDP" -> UDP_Status(chk, env, noTime)
      [] v = "TCPTimeout" -> TCPTimeout_Status(chk, env)
      [] v = "UDPTimeout" -> UDPTimeout_Status(chk, env)
      [] v = "RoutingTableDestination" -> RoutingTableDestination_Status(chk, env)
      [] v = "RoutingTableInterface" -> RoutingTableInterface_Status(chk, env)
      [] v = "RoutingTableGateway" -> RoutingTableGateway_Status(chk, env)
      [] v = "ResponseMatches" -> ResponseMatches_Status(chk, env)
      [] v = "ResponseMatchesInsecure" -> ResponseMatchesInsecure_Status(chk, env)
      [] v = "Command" -> Command_Status(chk, env)
      [] v = "CommandOutputMatches" -> CommandOutputMatches_Status(chk, env)
      [] v = "Running" -> Running_Status(chk, env)
      [] v = "Temp" -> Temp_Status(chk, env)
      [] v = "Module" -> Module_Status(chk, env)
      [] v = "KernelParameter" -> KernelParameter_Status(chk, env)
      [] v = "PHPConfig" -> PHPConfig_Status(chk, env)

\* ------------------------------------------------------ systemctl workers

\* the error of running any systemctl command, from the state of the binary:
\* "missing" (not in $PATH), "broken" (it runs and fails), "ok"
SystemctlErr(env) ==
    CASE env.systemctl = "missing"
           -> Err("exec: \"systemctl\": executable file not found in $PATH")
      [] env.systemctl = "broken" -> Err("exit status 1")
      [] OTHER -> nil

systemctlExists(env) ==
    LET err == SystemctlErr(env) IN
    IF err # nil /\ Contains(err.text, "not found in $PATH") THEN FALSE ELSE TRUE

\* systemctlShouldExist: log.Fatal when systemctl does not exist
systemctlShouldExistFatal(env) == ~systemctlExists(env)

systemctlService(env, service, activeOrLoaded) ==
    LET err == SystemctlErr(env)
        outstr == IF err # nil THEN ""
                  ELSE IF activeOrLoaded = "loaded"
                       THEN (IF env.show.loaded THEN "LoadState=loaded"
                             ELSE "LoadState=not-found")
                       ELSE (IF env.show.active THEN "ActiveState=active"
                             ELSE "ActiveState=inactive")
        contained == IF activeOrLoaded = "loaded" THEN "LoadState=loaded"
                     ELSE "ActiveState=active"
    IN  IF err # nil /\ ExecError(err) THEN Fatal("Failed to execute command")
        ELSE IF Contains(outstr, contained) THEN Return(0, <<>>, nil)
        ELSE LET msg == IF activeOrLoaded = "loaded" THEN "Service not loaded"
                        ELSE "Service not active"
             IN  GenericError(msg, service, Str(outstr))

\* a read of parameters[i]: a run-time panic when i is out of range
OutOfRange(parameters, i) == i >= Len(parameters)

systemctlLoaded(parameters, env) ==
    IF OutOfRange(parameters, 0) THEN Panic("index out of range")
    ELSE systemctlService(env, Param(parameters, 0), "loaded")

systemctlActive(parameters, env) ==
    IF OutOfRange(parameters, 0) THEN Panic("index out of range")
    ELSE systemctlService(env, Param(parameters, 0), "active")

\* column col of the rows of a table, Go index
Column(rows, col) == [r \in 1..Len(rows) |-> rows[r][col + 1]]

systemctlSock(env, value, path) ==
    IF systemctlShouldExistFatal(env) THEN Fatal("Couldn't execute systemctl")
    ELSE LET column == IF path THEN 0 ELSE 1 IN
         IF CommandColumnFatal([err |-> SystemctlErr(env)])
         THEN Fatal("Failed to execute command")
         ELSE LET values == Column(env.sockets, column) IN
              IF StrIn(value, values) THEN Return(0, <<>>, nil)
              ELSE GenericError("Socket not found", value, values)

systemctlSockPath(parameters, env) ==
    IF OutOfRange(parameters, 0) THEN Panic("index out of range")
    ELSE systemctlSock(env, Param(parameters, 0), TRUE)

systemctlSockUnit(parameters, env) ==
    IF OutOfRange(parameters, 0) THEN Panic("index out of range")
    ELSE systemctlSock(env, Param(parameters, 0), FALSE)

\* getTimers: log.Fatal when the command fails, else the names ending in .timer
getTimersFatal(env, all) == SystemctlErr(env) # nil

\* the match of (\w|\-)+\.timer in the name of a unit: "@" is no word character
TimerMatch(unit) ==
    CASE unit = "backup@lo.timer" -> "lo.timer"
      [] OTHER -> unit

\* re.FindAllString over the output: the match in every unit printed
getTimers(env, all) ==
    LET units == IF all THEN env.timers.all ELSE env.timers.active IN
    [i \in 1..Len(units) |-> TimerMatch(units[i])]

timersWorker(env, unit, all) ==
    IF getTimersFatal(env, all) THEN Fatal("Couldn't execute systemctl list-timers")
    ELSE LET timers == getTimers(env, all) IN
         IF StrIn(unit, timers) THEN Return(0, <<>>, nil)
         ELSE GenericError("Timer not found", unit, timers)

systemctlTimer(parameters, env) ==
    IF OutOfRange(parameters, 0) THEN Panic("index out of range")
    ELSE timersWorker(env, Param(parameters, 0), FALSE)

systemctlTimerLoaded(parameters, env) ==
    IF OutOfRange(parameters, 0) THEN Panic("index out of range")
    ELSE timersWorker(env, Param(parameters, 0), TRUE)

\* the loop over units from Go index i on, actualStatus being the status seen last
RECURSIVE UnitFileLoop(_, _, _, _, _, _)
UnitFileLoop(units, statuses, unit, status, i, actualStatus) ==
    IF i >= Len(units)
    THEN GenericError("Unit didn't have status", status, Str(actualStatus))
    ELSE IF units[i + 1] # unit
         THEN UnitFileLoop(units, statuses, unit, status, i + 1, actualStatus)
         ELSE IF i >= Len(statuses) THEN Panic("index out of range")
         ELSE IF statuses[i + 1] = status THEN Return(0, <<>>, nil)
         ELSE UnitFileLoop(units, statuses, unit, status, i + 1, statuses[i + 1])

\* parameters[0] and parameters[1] are read first; the two columns then come
\* from two runs of `systemctl list-unit-files`
systemctlUnitFileStatus(parameters, env) ==
    IF OutOfRange(parameters, 0) \/ OutOfRange(parameters, 1)
    THEN Panic("index out of range")
    ELSE IF CommandColumnFatal([err |-> SystemctlErr(env)])
    THEN Fatal("Failed to execute command")
    ELSE LET allUnits == Column(env.unitfiles, 0)
             allStatuses == Column(env.unitfiles2, 1)
         IN  IF Len(allUnits) < 2 \/ Len(allStatuses) < 2
             THEN Panic("slice bounds out of range")
             ELSE UnitFileLoop(SubSeq(allUnits, 1, Len(allUnits) - 2),
                                    SubSeq(allStatuses, 1, Len(allStatuses) - 2),
                                    Param(parameters, 0), Param(parameters, 1), 0, "")

\* RegisterSystemctl registering systemctlunitfilestatus with arity 1
SystemctlChecksArityOne ==
    << [name |-> "systemctlloaded", worker |-> "systemctlLoaded", arity |-> 1],
       [name |-> "systemctlactive", worker |-> "systemctlActive", arity |-> 1],
       [name |-> "systemctlsockpath", worker |-> "systemctlSockPath", arity |-> 1],
       [name |-> "systemctlsockunit", worker |-> "systemctlSockUnit", arity |-> 1],
       [name |-> "systemctltimer", worker |-> "systemctlTimer", arity |-> 1],
       [name |-> "systemctltimerloaded", worker |-> "systemctlTimerLoaded", arity |-> 1],
       [name |-> "systemctlunitfilestatus", worker |-> "systemctlUnitFileStatus", arity |-> 1] >>

\* the calls of RegisterSystemctl: the registered name, worker and arity, in order
SystemctlChecks ==
    << [name |-> "systemctlloaded", worker |-> "systemctlLoaded", arity |-> 1],
       [name |-> "systemctlactive", worker |-> "systemctlActive", arity |-> 1],
       [name |-> "systemctlsockpath", worker |-> "systemctlSockPath", arity |-> 1],
       [name |-> "systemctlsockunit", worker |-> "systemctlSockUnit", arity |-> 1],
       [name |-> "systemctltimer", worker |-> "systemctlTimer", arity |-> 1],
       [name |-> "systemctltimerloaded", worker |-> "systemctlTimerLoaded", arity |-> 1],
       [name |-> "systemctlunitfilestatus", worker |-> "systemctlUnitFileStatus", arity |-> 2] >>

WorkerNames == {SystemctlChecks[i].worker : i \in 1..Len(SystemctlChecks)}

\* the arity a worker is registered with
RegisteredArity(w) ==
    SystemctlChecks[CHOOSE i \in 1..Len(SystemctlChecks) :
                       SystemctlChecks[i].worker = w].arity

\* a call of the worker function w
Worker(w, parameters, env) ==
    CASE w = "systemctlLoaded" -> systemctlLoaded(parameters, env)
      [] w = "systemctlActive" -> systemctlActive(parameters, env)
      [] w = "systemctlSockPath" -> systemctlSockPath(parameters, env)
      [] w = "systemctlSockUnit" -> systemctlSockUnit(parameters, env)
      [] w = "systemctlTimer" -> systemctlTimer(parameters, env)
      [] w = "systemctlTimerLoaded" -> systemctlTimerLoaded(parameters, env)
      [] w = "systemctlUnitFileStatus" -> systemctlUnitFileStatus(parameters, env)

\* the Go indices at which the worker function w reads its parameters
ParamIndices(w) == IF w = "systemctlUnitFileStatus" THEN {0, 1} ELSE {0}

\* the systemctl commands a call of the worker function w runs, in the order
\* of its exec.Command calls, up to the one at which the call ends
SystemctlCommands(w, parameters, env) ==
    CASE OutOfRange(parameters, 0) -> <<>>
      [] w \in {"systemctlLoaded", "systemctlActive"} -> <<"show">>
      [] w \in {"systemctlSockPath", "systemctlSockUnit"}
           -> IF systemctlShouldExistFatal(env) THEN <<"--version">>
              ELSE <<"--version", "list-sockets">>
      [] w \in {"systemctlTimer", "systemctlTimerLoaded"} -> <<"list-timers">>
      [] w = "systemctlUnitFileStatus"
           -> IF OutOfRange(parameters, 1) THEN <<>>
              ELSE IF CommandColumnFatal([err |-> SystemctlErr(env)])
                   THEN <<"list-unit-files">>
                   ELSE <<"list-unit-files", "list-unit-files">>

\* ------------------------------------------------------------------ thunks

\* Command(toExec): the thunk's exit code and message; fmt.Sprint of the bytes read
\* from a pipe that Wait has closed is "[]"
ThunkCommand(toExec, env) ==
    IF ExecError(StartErr(env.cmd)) THEN Fatal("fatal(err)")
    ELSE LET exitCode == IF WaitErr(env.cmd) # nil THEN 1 ELSE 0 IN
         IF exitCode # 0
         THEN Return(exitCode,
                     <<"Command ">> \o Str(toExec) \o
                     <<" executed ", "with exit code ", Sprint(exitCode), "\n\n",
                       "stdout: \n", "[]", "\n\n", "stderr: \n", "[]">>, nil)
         ELSE Return(exitCode, <<>>, nil)

\* the output of ps with every match of the -f ... .json pattern removed
WithoutJSONFlag(text) ==
    CASE text = "root 1 lo\nroot 2 distributive -f lo.json"
           -> "root 1 lo\nroot 2 distributive "
      [] text = "root 2 distributive -f lo.json" -> "root 2 distributive "
      [] OTHER -> text

ThunkRunning(proc, env) ==
    IF ExecError(env.ps.err) THEN Fatal("fatal(err)")
    ELSE LET filtered == WithoutJSONFlag(env.ps.text) IN
         IF Contains(filtered, proc) THEN Return(0, <<>>, nil)
         ELSE Return(1, Str(proc) \o <<" is not running">>, nil)

\* getManager: the first of managers whose --version start error does not say
\* "not found"; "" when there is none (log.Fatal)
RECURSIVE getManager(_, _)
getManager(env, managers) ==
    IF managers = <<>> THEN ""
    ELSE LET program == Head(managers)
             message == CASE program \in env.managers -> ""
                          [] program = "dpkg"
                               -> "exec: \"dpkg\": executable file not found in $PATH"
                          [] program = "rpm"
                               -> "exec: \"rpm\": executable file not found in $PATH"
                          [] OTHER -> "exec: \"pacman\": executable file not found in $PATH"
         IN  IF Contains(message, "not found") = FALSE THEN program
             ELSE getManager(env, Tail(managers))

\* getQuery: the query command and its option; "" for an unsupported manager
getQuery(program) ==
    CASE program = "dpkg" -> <<"dpkg", "-s">>
      [] program = "rpm" -> <<"rpm", "-q">>
      [] program = "pacman" -> <<"pacman", "-Qs">>
      [] OTHER -> <<"", "">>

ThunkInstalled(pkg, env) ==
    LET managers == <<"dpkg", "rpm", "pacman">>
        program == getManager(env, managers)
    IN  IF program = "" THEN Fatal("No package manager found")
        ELSE LET name == getQuery(program)[1]
                 out == env.pkgout
             IN  IF Contains(out, pkg) = FALSE
                 THEN Return(1, <<"Package ">> \o Str(pkg) \o
                                <<" was not found with ", name, "\n">>, nil)
                 ELSE Return(0, <<>>, nil)

\* the first match of \d+\.\d* in the first "Core 0:?(.*)\(" line of the output
Core0TempString(lines) ==
    IF \E i \in 1..Len(lines) : lines[i] \in {Core0Cool, Core0Hot, Core0Huge, Core0Cold}
    THEN LET i == CHOOSE k \in 1..Len(lines) :
                    /\ lines[k] \in {Core0Cool, Core0Hot, Core0Huge, Core0Cold}
                    /\ \A j \in 1..(k - 1) :
                          lines[j] \notin {Core0Cool, Core0Hot, Core0Huge, Core0Cold}
         IN  CASE lines[i] = Core0Cool -> "40.0"
               [] lines[i] = Core0Hot -> "98.0"
               [] lines[i] = Core0Cold -> "99.0"
               [] OTHER -> "99999999999999999999.0"
    ELSE ""

\* strconv.ParseFloat(s, 64) followed by int(): 0 and an error for the empty text;
\* a float beyond the int range converts to the lowest int
ParseFloatInt(s) ==
    CASE s = "40.0" -> [val |-> 40, err |-> nil]
      [] s = "98.0" -> [val |-> 98, err |-> nil]
      [] s = "99.0" -> [val |-> 99, err |-> nil]
      [] s = "99999999999999999999.0" -> [val |-> 0 - Pow2(30), err |-> nil]
      [] OTHER -> [val |-> 0, err |-> Err("invalid syntax")]

ThunkTemp(max, env) ==
    IF ExecError(env.sensors.err) THEN Fatal("fatal(err)")
    ELSE LET t == ParseFloatInt(Core0TempString(env.sensors.lines)) IN
         IF ExecError(t.err) THEN Fatal("fatal(err)")
         ELSE LET temp == t.val IN
              IF temp < max THEN Return(0, <<>>, nil)
              ELSE Return(1, <<"Core temp ", Sprint(temp), " exceeds defined max of ",
                               Sprint(max), "\n">>, nil)

ThunkNames == {"ThunkCommand", "ThunkRunning", "ThunkInstalled", "ThunkTemp"}

\* a call of the thunk that constructor t made from arg
Thunk(t, arg, env) ==
    CASE t = "ThunkCommand" -> ThunkCommand(arg, env)
      [] t = "ThunkRunning" -> ThunkRunning(arg, env)
      [] t = "ThunkInstalled" -> ThunkInstalled(arg, env)
      [] t = "ThunkTemp" -> ThunkTemp(arg, env)

\* ------------------------------------------- the states the probes can observe

PsRuns ==
    { [err |-> Err("exit status 1"), column |-> <<>>, text |-> ""],
      [err |-> nil, column |-> <<>>, text |-> ""],
      [err |-> nil, column |-> <<"lo">>, text |-> "root 1 lo"],
      [err |-> nil, column |-> <<"login">>, text |-> "root 3 login"],
      [err |-> nil, column |-> <<"distributived">>, text |-> "root 4 distributived"],
      [err |-> nil, column |-> <<"/usr/bin/distributive">>,
       text |-> "root 2 distributive -f lo.json"],
      [err |-> nil, column |-> <<"lo", "/usr/bin/distributive">>,
       text |-> "root 1 lo\nroot 2 distributive -f lo.json"] }

SensorRuns ==
    { [err |-> Err("exec: \"sensors\": executable file not found in $PATH"), lines |-> <<>>],
      [err |-> nil, lines |-> <<>>],
      [err |-> nil, lines |-> <<AdapterLine>>],
      [err |-> nil, lines |-> <<AdapterLine, Core0Cool, Core1Cool>>],
      [err |-> nil, lines |-> <<Core0Hot, Core1Cool>>],
      [err |-> nil, lines |-> <<AdapterLine, Core0Cold>>],
      [err |-> nil, lines |-> <<Core0Huge>>] }

LsmodRuns ==
    { [err |-> Err("exit status 1"), column |-> <<>>],
      [err |-> nil, column |-> <<>>],
      [err |-> nil, column |-> <<"lo", "80">>],
      [err |-> nil, column |-> <<"loop">>] }

SysctlErrs == { nil, Err("exit status 255"), Err("exit status 1") }

PHPRuns ==
    { [err |-> Err("exec: \"php\": executable file not found in $PATH"), out |-> ""],
      [err |-> nil, out |-> ""],
      [err |-> nil, out |-> "lo"] }

SystemctlStates == {"ok", "missing", "broken"}

\* the rows of `systemctl list-sockets`: path, unit
SocketTables == { <<>>, << <<"lo", "80">> >>, << <<"lo0", "800">> >> }

\* the units `systemctl list-timers` and `systemctl list-timers --all` print
TimerLists ==
    { [active |-> <<>>, all |-> <<>>],
      [active |-> <<>>, all |-> <<"lo.timer">>],
      [active |-> <<"lo.timer">>, all |-> <<"lo.timer">>],
      [active |-> <<"backup@lo.timer">>, all |-> <<"backup@lo.timer">>] }

\* the rows of `systemctl list-unit-files`: unit, status; the last two rows are
\* the empty line and the count
BlankRow == <<"", "">>
CountRow == <<"2", "unit">>

\* the tables read by the first and by the second run
UnitFileReads ==
    { << <<>>, <<>> >>,
      << <<BlankRow, CountRow>>, <<BlankRow, CountRow>> >>,
      << <<<<"lo", "80">>, BlankRow, CountRow>>, <<<<"lo", "80">>, BlankRow, CountRow>> >>,
      << <<<<"lo", "5s">>, <<"lo", "80">>, BlankRow, CountRow>>,
         <<<<"lo", "5s">>, <<"lo", "80">>, BlankRow, CountRow>> >>,
      << <<<<"5s", "80">>, <<"lo", "80">>, BlankRow, CountRow>>,
         <<<<"lo", "80">>, BlankRow, CountRow>> >> }

\* the states of the system that the probe of unit v can tell apart
EnvFor(v) ==
    CASE v \in {"Port", "PortTCP", "PortUDP"}
           -> {[DefaultEnv EXCEPT !.tcp = t, !.udp = u] : t \in PortLists, u \in PortLists}
      [] v \in {"InterfaceExists", "Up", "IP4", "IP6"}
           -> {[DefaultEnv EXCEPT !.ifaces = i] : i \in InterfaceLists}
      [] v \in {"Gateway", "RoutingTableDestination", "RoutingTableInterface",
                "RoutingTableGateway"}
           -> {[DefaultEnv EXCEPT !.route = r, !.route2 = r] : r \in RouteTables}
      [] v = "GatewayInterface"
           -> {[DefaultEnv EXCEPT !.route = r, !.route2 = q] :
                  r \in RouteTables, q \in RouteTables}
      [] v = "Host" -> {[DefaultEnv EXCEPT !.resolvable = h] : h \in {{}, {"lo"}}}
      [] v \in {"TCP", "UDP", "TCPTimeout", "UDPTimeout"}
           -> {[DefaultEnv EXCEPT !.latency = l, !.redial = r] : l \in Latencies, r \in Latencies}
      [] v \in {"ResponseMatches", "ResponseMatchesInsecure"}
           -> {[DefaultEnv EXCEPT !.body = b] : b \in {"", "hello world"}}
      [] v \in {"Command", "CommandOutputMatches", "ThunkCommand"}
           -> {[DefaultEnv EXCEPT !.cmd = c] : c \in CommandRuns}
      [] v \in {"Running", "ThunkRunning"} -> {[DefaultEnv EXCEPT !.ps = p] : p \in PsRuns}
      [] v \in {"Temp", "ThunkTemp"} -> {[DefaultEnv EXCEPT !.sensors = x] : x \in SensorRuns}
      [] v = "Module" -> {[DefaultEnv EXCEPT !.lsmod = m] : m \in LsmodRuns}
      [] v = "KernelParameter" -> {[DefaultEnv EXCEPT !.sysctl = e] : e \in SysctlErrs}
      [] v = "PHPConfig" -> {[DefaultEnv EXCEPT !.php = r] : r \in PHPRuns}
      [] v = "ThunkInstalled"
           -> {[DefaultEnv EXCEPT !.managers = m, !.pkgout = o] :
                  m \in {{}, {"rpm"}, {"dpkg", "pacman"}}, o \in {"", "Package: lo"}}
      [] v \in {"systemctlLoaded", "systemctlActive"}
           -> {[DefaultEnv EXCEPT !.systemctl = x, !.show = [active |-> b, loaded |-> b]] :
                  x \in SystemctlStates, b \in BOOLEAN}
      [] v \in {"systemctlSockPath", "systemctlSockUnit"}
           -> {[DefaultEnv EXCEPT !.systemctl = x, !.sockets = t] :
                  x \in SystemctlStates, t \in SocketTables}
      [] v \in {"systemctlTimer", "systemctlTimerLoaded"}
           -> {[DefaultEnv EXCEPT !.systemctl = x, !.timers = t] :
                  x \in SystemctlStates, t \in TimerLists}
      [] v = "systemctlUnitFileStatus"
           -> {[DefaultEnv EXCEPT !.systemctl = "missing"]}
              \cup {[DefaultEnv EXCEPT !.unitfiles = u[1], !.unitfiles2 = u[2]] :
                      u \in UnitFileReads}

\* ---------------------------------------------------------------- lifecycle

VARIABLES
    pc,          \* "startup", "ready", "configured", "invalid", "constructed", "fatal"
    registry,    \* registered name -> the unit registered under it and its arity
    regIdx,      \* the number of check variants registered so far
    replaced,    \* the names whose registry entry was replaced by a later one
    variant,     \* the unit looked up: a check type, a worker or a thunk constructor
    params,      \* the raw parameters of the CheckSpec
    chk,         \* the Check value (for New: the value it returned)
    newErr,      \* the error New returned
    read,        \* the Go indices of params that construction read
    env,         \* the state of the system
    noTime,      \* the package variable noTime
    runs,        \* the number of executions started
    first,       \* the outcome of the first execution
    result,      \* the outcome of the latest execution
    envChanged,  \* whether the system changed since the first execution
    workers      \* the checks run by parallel workers: check -> its position and Result

vars == <<pc, registry, regIdx, replaced, variant, params, chk, newErr, read,
          env, noTime, runs, first, result, envChanged, workers>>

NoResult == [kind |-> "none", code |-> 0, message |-> <<>>, cause |-> nil]

Init ==
    /\ pc = "startup"
    /\ registry = <<>>
    /\ regIdx = 0
    /\ replaced = {}
    /\ variant = ""
    /\ params = <<>>
    /\ chk = [none |-> ""]
    /\ newErr = nil
    /\ read = {}
    /\ env = DefaultEnv
    /\ noTime = noTimeInit
    /\ runs = 0
    /\ first = NoResult
    /\ result = NoResult
    /\ envChanged = FALSE
    /\ workers = <<>>

\* register(name, arity, constructor): an entry under a name already taken
\* replaces the earlier one
Put(reg, name, entry) ==
    IF name \in DOMAIN reg THEN [reg EXCEPT ![name] = entry] ELSE reg @@ (name :> entry)

\* the number of parameters New of variant v accepts
Arity(v) == CHOOSE n \in 0..4 : New(v, Zero(v), [i \in 1..n |-> "lo"]).err.type
                                   # "ParameterLengthError"

\* startup: the next check variant is registered under its ID()
RegisterCheck ==
    /\ pc = "startup"
    /\ regIdx < Len(Checks)
    /\ LET v == Checks[regIdx + 1]
           name == ID(v)
       IN  /\ registry' = Put(registry, name, [unit |-> v, arity |-> Arity(v)])
           /\ replaced' = IF name \in DOMAIN registry THEN replaced \cup {name} ELSE replaced
    /\ regIdx' = regIdx + 1
    /\ UNCHANGED <<pc, variant, params, chk, newErr, read, env, noTime, runs, first,
                   result, envChanged,
                   workers>>

\* the registry after the first n calls of RegisterSystemctl
RECURSIVE RegisterWorkers(_, _)
RegisterWorkers(reg, n) ==
    IF n = 0 THEN reg
    ELSE Put(RegisterWorkers(reg, n - 1), SystemctlChecks[n].name,
             [unit |-> SystemctlChecks[n].worker, arity |-> SystemctlChecks[n].arity])

\* startup ends with RegisterSystemctl()
RegisterSystemctl ==
    /\ pc = "startup"
    /\ regIdx = Len(Checks)
    /\ registry' = RegisterWorkers(registry, Len(SystemctlChecks))
    /\ replaced' = replaced \cup
          {SystemctlChecks[i].name : i \in {j \in 1..Len(SystemctlChecks) :
              \/ SystemctlChecks[j].name \in DOMAIN registry
              \/ \E k \in 1..(j - 1) : SystemctlChecks[k].name = SystemctlChecks[j].name}}
    /\ pc' = "ready"
    /\ UNCHANGED <<regIdx, variant, params, chk, newErr, read, env, noTime, runs, first,
                   result, envChanged,
                   workers>>

\* a CheckSpec arrives: a check type and its raw parameters
ConfigureCheck ==
    /\ pc = "ready"
    /\ \E v \in CheckNames, ps \in ParamLists(MaxParams) :
          /\ variant' = v
          /\ params' = ps
          /\ chk' = Zero(v)
    /\ pc' = "configured"
    /\ UNCHANGED <<registry, regIdx, replaced, newErr, read, env, noTime, runs, first,
                   result, envChanged,
                   workers>>

\* a CheckSpec arrives: a registered worker and its raw parameters
ConfigureWorker ==
    /\ pc = "ready"
    /\ \E w \in WorkerNames, ps \in ParamLists(MaxParams) :
          /\ variant' = w
          /\ params' = ps
          /\ chk' = [parameters |-> <<>>]
    /\ pc' = "configured"
    /\ UNCHANGED <<registry, regIdx, replaced, newErr, read, env, noTime, runs, first,
                   result, envChanged,
                   workers>>

\* the arguments a thunk constructor is called with
ThunkArgs(t) == IF t = "ThunkTemp" THEN {80, 98} ELSE RawValues

\* a thunk constructor is called with its typed argument
MakeThunk ==
    /\ pc = "ready"
    /\ \E t \in ThunkNames : \E arg \in ThunkArgs(t) :
          /\ variant' = t
          /\ params' = <<arg>>
          /\ chk' = [arg |-> arg]
    /\ pc' = "constructed"
    /\ read' = {0}
    /\ UNCHANGED <<registry, regIdx, replaced, newErr, env, noTime, runs, first,
                   result, envChanged,
                   workers>>

\* the caller constructs the check: New on the zero value of the type; only a
\* nil error makes the check executable
Construct ==
    /\ pc = "configured"
    /\ variant \in CheckNames
    /\ LET r == New(variant, chk, params) IN
          /\ chk' = r.chk
          /\ newErr' = r.err
          /\ read' = r.read
          /\ pc' = IF r.err = nil THEN "constructed" ELSE "invalid"
    /\ UNCHANGED <<registry, regIdx, replaced, variant, params, env, noTime, runs, first,
                   result, envChanged,
                   workers>>

\* the caller validates a worker's parameters against its registered arity
ValidateWorker ==
    /\ pc = "configured"
    /\ variant \in WorkerNames
    /\ IF Len(params) = RegisteredArity(variant)
       THEN /\ chk' = [parameters |-> params]
            /\ newErr' = nil
            /\ pc' = "constructed"
       ELSE /\ chk' = chk
            /\ newErr' = ParameterLengthError(RegisteredArity(variant), params)
            /\ pc' = "invalid"
    /\ UNCHANGED <<registry, regIdx, replaced, variant, params, read, env, noTime, runs,
                   first, result, envChanged,
                   workers>>

\* the outcome of one execution of the constructed unit
Run(v, c, e, nt) ==
    CASE v \in CheckNames -> Status(v, c, e, nt)
      [] v \in WorkerNames -> Worker(v, c.parameters, e)
      [] v \in ThunkNames -> Thunk(v, c.arg, e)

\* Status with a pointer receiver that clears the fields of a check once probed
AfterStatusClearing(v, c) == IF v \in CheckNames THEN Zero(v) ELSE c

\* the receiver after Status: Status has a value receiver and assigns no field
AfterStatus(v, c) == c

\* one execution, from its start to its return or to the end of the process
Execute ==
    /\ pc = "constructed"
    /\ runs < MaxRuns
    /\ LET out == Run(variant, chk, env, noTime) IN
          /\ result' = out
          /\ first' = IF runs = 0 THEN out ELSE first
          /\ pc' = IF out.kind = "return" THEN "constructed" ELSE "fatal"
    /\ chk' = AfterStatus(variant, chk)
    /\ runs' = runs + 1
    /\ envChanged' = IF runs = 0 THEN FALSE ELSE envChanged
    /\ UNCHANGED <<registry, regIdx, replaced, variant, params, newErr, read, env, noTime,
                   workers>>

\* the monitored system changes on its own
EnvChange ==
    /\ pc = "constructed"
    /\ runs < MaxRuns
    /\ \E e \in EnvFor(variant) : e # env /\ env' = e
    /\ envChanged' = (runs > 0)
    /\ UNCHANGED <<pc, registry, regIdx, replaced, variant, params, chk, newErr, read,
                   noTime, runs, first, result,
                   workers>>

Next ==
    \/ RegisterCheck
    \/ RegisterSystemctl
    \/ ConfigureCheck
    \/ ConfigureWorker
    \/ MakeThunk
    \/ Construct
    \/ ValidateWorker
    \/ Execute
    \/ EnvChange

Spec == Init /\ [][Next]_vars

\* -------------------------------------------------- parallel execution

\* the number of checks that parallel workers run in one process
MaxParallel == 2

\* valid parameters for each variant: the checks handed to the workers
ParParams(v) ==
    CASE v \in {"Port", "PortTCP", "PortUDP"} -> <<"80">>
      [] v \in {"Gateway", "RoutingTableDestination", "RoutingTableGateway"}
           -> <<"10.0.0.1">>
      [] v \in {"IP4", "IP6"} -> <<"lo", "10.0.0.1">>
      [] v \in {"TCPTimeout", "UDPTimeout"} -> <<"lo", "5s">>
      [] v \in {"ResponseMatches", "ResponseMatchesInsecure", "CommandOutputMatches",
                "PHPConfig"} -> <<"lo", "lo">>
      [] v = "Temp" -> <<"98C">>
      [] OTHER -> <<"lo">>

\* the constructed checks: each variant with the Check its New returned
ParChecks == {[variant |-> v, chk |-> New(v, Zero(v), ParParams(v)).chk] : v \in CheckNames}

\* the subsets of S that have k elements
RECURSIVE SubsetsOfSize(_, _)
SubsetsOfSize(S, k) ==
    IF k = 0 THEN {{}}
    ELSE UNION {{T \cup {x} : T \in SubsetsOfSize(S \ {x}, k - 1)} : x \in S}

\* a process in which MaxParallel constructed checks are about to be run in
\* parallel (t.Parallel()), the system being in a state one of them can tell apart
InitPar ==
    /\ pc = "parallel"
    /\ registry = <<>>
    /\ regIdx = 0
    /\ replaced = {}
    /\ variant = ""
    /\ params = <<>>
    /\ chk = [none |-> ""]
    /\ newErr = nil
    /\ read = {}
    /\ noTime = noTimeInit
    /\ runs = 0
    /\ first = NoResult
    /\ result = NoResult
    /\ envChanged = FALSE
    /\ \E S \in SubsetsOfSize(ParChecks, MaxParallel) :
          /\ workers = [c \in S |-> [pc |-> "ready", result |-> NoResult]]
          /\ env \in UNION {EnvFor(c.variant) : c \in S}

\* a worker calls Status of its check
BeginStatus(c) ==
    /\ pc = "parallel"
    /\ workers[c].pc = "ready"
    /\ workers' = [workers EXCEPT ![c].pc = "probing"]
    /\ UNCHANGED <<pc, registry, regIdx, replaced, variant, params, chk, newErr, read,
                   env, noTime, runs, first, result, envChanged>>

\* Status returns its triple to the worker
ReturnStatus(c) ==
    /\ pc = "parallel"
    /\ workers[c].pc = "probing"
    /\ LET out == Status(c.variant, c.chk, env, noTime) IN
          /\ out.kind = "return"
          /\ workers' = [workers EXCEPT ![c] = [pc |-> "returned", result |-> out]]
    /\ UNCHANGED <<pc, registry, regIdx, replaced, variant, params, chk, newErr, read,
                   env, noTime, runs, first, result, envChanged>>

\* Status calls log.Fatal: os.Exit ends the process and every worker in it
ExitProcess(c) ==
    /\ pc = "parallel"
    /\ workers[c].pc = "probing"
    /\ LET out == Status(c.variant, c.chk, env, noTime) IN
          /\ out.kind # "return"
          /\ workers' = [workers EXCEPT ![c] = [pc |-> "exited", result |-> out]]
    /\ pc' = "fatal"
    /\ UNCHANGED <<registry, regIdx, replaced, variant, params, chk, newErr, read,
                   env, noTime, runs, first, result, envChanged>>

NextPar ==
    \/ \E c \in DOMAIN workers : BeginStatus(c)
    \/ \E c \in DOMAIN workers : ReturnStatus(c)
    \/ \E c \in DOMAIN workers : ExitProcess(c)

SpecPar == InitPar /\ [][NextPar]_vars

\* ------------------------------------------------------------------ claims

Executed == runs > 0
Returned == runs > 0 /\ result.kind = "return"

\* C1: every Result that an execution returns (Status of a check, a worker, a
\* thunk) has code 0 exactly when its message is empty and its cause is nil.
C1_CodeZeroIffEmptyAndNoCause ==
    Returned =>
        ((result.code = 0) <=> (result.message = <<>> /\ result.cause = nil))

\* C1 witness: Command.Status has returned code 1 with a cause, after the shell
\* could not be started for a reason other than a missing executable.
C1_Witness ==
    /\ Returned
    /\ variant = "Command"
    /\ result.code = 1
    /\ result.cause # nil

\* C2: every failing Result carries a non-empty message and every passing Result
\* the empty message.
C2_FailingIffMessage ==
    Returned => ((result.code # 0) <=> (result.message # <<>>))

\* the variants the claims list with two parameters; all others take one
TwoParameterVariants ==
    {"IP4", "IP6", "TCPTimeout", "UDPTimeout", "ResponseMatches",
     "ResponseMatchesInsecure", "CommandOutputMatches", "PHPConfig"}

DeclaredArity(v) == IF v \in TwoParameterVariants THEN 2 ELSE 1

NewReturned == pc \in {"invalid", "constructed", "fatal"} /\ variant \in CheckNames

\* C3: New called with a parameter list whose length is not the declared arity of
\* the variant returns a ParameterLengthError holding that arity and the
\* parameters given, and it has read no parameter.
C3_ArityError ==
    (NewReturned /\ Len(params) # DeclaredArity(variant)) =>
        /\ pc = "invalid"
        /\ newErr = ParameterLengthError(DeclaredArity(variant), params)
        /\ read = {}

\* C3 witness: PHPConfig.New has refused three parameters.
C3_Witness ==
    /\ pc = "invalid"
    /\ variant = "PHPConfig"
    /\ Len(params) = 3
    /\ newErr.type = "ParameterLengthError"

\* the parameter each variant documents as a typed value: its Go index and type
TypedParameter(v) ==
    CASE v \in {"Port", "PortTCP", "PortUDP"} -> [index |-> 0, type |-> "uint16"]
      [] v \in {"IP4", "IP6"} -> [index |-> 1, type |-> "IP"]
      [] v \in {"Gateway", "RoutingTableDestination", "RoutingTableGateway"}
           -> [index |-> 0, type |-> "IP"]
      [] v \in {"TCPTimeout", "UDPTimeout"} -> [index |-> 1, type |-> "duration"]
      [] v \in {"ResponseMatches", "ResponseMatchesInsecure", "CommandOutputMatches"}
           -> [index |-> 1, type |-> "regexp"]
      [] v = "Temp" -> [index |-> 0, type |-> "temperature"]
      [] OTHER -> [index |-> -1, type |-> "string"]

\* whether raw text s converts to the documented type
Convertible(s, type) ==
    CASE type = "uint16" -> DecimalValue(s) \in 0..65535
      [] type = "IP" -> ValidIP(s)
      [] type = "duration" -> ParseDuration(s).err = nil
      [] type = "regexp" -> Compile(s).err = nil
      [] type = "temperature" -> DecimalValue(StripCelsius(s)) \in 0..32767
      [] OTHER -> TRUE

\* the typed parameter of the variant is present and does not convert
TypeViolation(v, ps) ==
    /\ TypedParameter(v).index >= 0
    /\ ~Convertible(Param(ps, TypedParameter(v).index), TypedParameter(v).type)

\* C4: with the right number of parameters, New fails with a ParameterTypeError
\* naming the offending raw value exactly when the typed parameter does not
\* convert, and succeeds otherwise.
C4_TypeError ==
    (NewReturned /\ Len(params) = DeclaredArity(variant)) =>
        IF TypeViolation(variant, params)
        THEN /\ newErr.type = "ParameterTypeError"
             /\ newErr.value = Param(params, TypedParameter(variant).index)
        ELSE newErr = nil

\* the raw parameters meet the arity and the documented types of the unit
ParamsValid(v, ps) ==
    IF v \in CheckNames
    THEN Len(ps) = DeclaredArity(v) /\ ~TypeViolation(v, ps)
    ELSE Len(ps) = RegisteredArity(v)

\* C5: a check or worker is executed only after its construction returned a nil
\* error, and never for parameters that violate its arity or documented types.
C5_ExecuteOnlyValidated ==
    (Executed /\ variant \in CheckNames \cup WorkerNames) =>
        (newErr = nil /\ ParamsValid(variant, params))

\* C6: the Check that New returns together with an error is the receiver it was
\* called on: no field holds a raw parameter.
C6_FailedNewReturnsReceiver ==
    (pc = "invalid" /\ variant \in CheckNames) => chk = Zero(variant)

\* C7: the variants registered so far have pairwise distinct ID()s, and no
\* registration has replaced an entry.
C7_UniqueIDs ==
    /\ \A i, j \in 1..regIdx : i # j => ID(Checks[i]) # ID(Checks[j])
    /\ replaced = {}

\* C8: a check constructed from the variant looked up under its own name
\* reports that name as its ID().
C8_IDRoundTrip ==
    (pc = "constructed" /\ variant \in CheckNames) => ID(variant) = variant

\* what construction made of the raw parameters
Built(v, ps) ==
    CASE v \in CheckNames -> New(v, Zero(v), ps).chk
      [] v \in WorkerNames -> [parameters |-> ps]
      [] OTHER -> [arg |-> ps[1]]

C10_AlwaysReturns == Executed => result.kind = "return"

\* the column a routing table check reads is unavailable: the table is empty
RouteUnavailable(v, e) ==
    /\ v \in {"Gateway", "GatewayInterface", "RoutingTableDestination",
              "RoutingTableInterface", "RoutingTableGateway"}
    /\ \/ e.route = <<>>
       \/ v = "GatewayInterface" /\ e.route2 = <<>>
       \/ /\ v = "GatewayInterface"
          /\ \E i \in 3..Len(e.route) :
                /\ e.route[i][2] # "0.0.0.0"
                /\ \A j \in 3..(i - 1) : e.route[j][2] = "0.0.0.0"
                /\ Len(e.route2) < i

\* no temperature can be taken from the output of sensors
NoCoreTemp(v, e) ==
    \/ /\ v \in {"Temp", "ThunkTemp"}
       /\ e.sensors.err # nil
    \/ /\ v = "Temp"
       /\ \/ \A i \in 1..Len(e.sensors.lines) :
                e.sensors.lines[i] \notin {Core0Cool, Core0Hot, Core1Cool, Core0Cold}
          \/ \E i \in 1..Len(e.sensors.lines) : e.sensors.lines[i] = Core0Huge
    \/ /\ v = "ThunkTemp"
       /\ \A i \in 1..Len(e.sensors.lines) :
             e.sensors.lines[i] \notin {Core0Cool, Core0Hot, Core0Huge, Core0Cold}

\* the systemctl command of a worker cannot be run, or its table is too short
SystemctlUnusable(v, c, e) ==
    /\ v \in WorkerNames
    /\ \/ e.systemctl # "ok"
       \/ /\ v = "systemctlUnitFileStatus"
          /\ \/ Len(e.unitfiles) < 2
             \/ Len(e.unitfiles2) < 2
             \/ \E i \in 1..(Len(e.unitfiles) - 2) :
                   /\ e.unitfiles[i][1] = c.parameters[1]
                   /\ i > Len(e.unitfiles2) - 2
                   /\ \A j \in 1..(i - 1) :
                         e.unitfiles[j][1] = c.parameters[1]
                            => e.unitfiles2[j][2] # c.parameters[2]

\* the utility another probe runs fails
UtilityFails(v, e) ==
    \/ v = "CommandOutputMatches" /\ (e.cmd.start # "" \/ e.cmd.wait # "ok")
    \/ v = "ThunkCommand" /\ e.cmd.start # ""
    \/ v \in {"Running", "ThunkRunning"} /\ e.ps.err # nil
    \/ v = "Module" /\ e.lsmod.err # nil
    \/ v = "KernelParameter" /\ e.sysctl \notin {nil, Err("exit status 255")}
    \/ v = "PHPConfig" /\ e.php.err # nil
    \/ v = "ThunkInstalled" /\ e.managers = {}

\* the states in which an execution ends the whole run
EndsRun(v, c, e) ==
    \/ RouteUnavailable(v, e)
    \/ NoCoreTemp(v, e)
    \/ SystemctlUnusable(v, c, e)
    \/ UtilityFails(v, e)

\* C10, the extent of the divergence: an execution either returns a Result or
\* ends the whole run by a fatal log or a panic; it ends the run exactly in the
\* states of EndsRun (empty routing table, no Core line in the sensors output,
\* unusable systemctl, a failing utility) and returns a Result in every other.
C10_ReturnsOrEndsRun ==
    Executed =>
        /\ result.kind \in {"return", "fatal", "panic"}
        /\ (pc = "fatal") <=> (result.kind # "return")
        /\ pc = "fatal" => EndsRun(variant, chk, env)
        /\ (pc = "constructed" /\ ~envChanged) => ~EndsRun(variant, chk, env)

\* C10, a state of the divergence: systemctlTimer has ended the run because
\* systemctl is missing.
C10_Witness ==
    /\ pc = "fatal"
    /\ variant = "systemctlTimer"
    /\ env.systemctl = "missing"
    /\ result.kind = "fatal"

\* C11: in a process that runs checks in parallel, a check that has returned has
\* returned the Result it returns when run alone against the same state, no
\* Status has written the package variable the connection checks read, and no
\* check that returns a Result when run alone is left without one because the
\* process has ended.
C11_Independent ==
    \A c \in DOMAIN workers :
        LET alone == Status(c.variant, c.chk, env, noTimeInit) IN
        /\ workers[c].pc = "returned" => workers[c].result = alone
        /\ noTime = noTimeInit
        /\ (pc = "fatal" /\ alone.kind = "return") => workers[c].pc = "returned"

\* the units whose probe runs a utility and that C12 names
InfraUnits ==
    {"Command", "CommandOutputMatches", "KernelParameter", "PHPConfig",
     "systemctlLoaded", "systemctlActive"}

\* the utility of the probe is missing, does not start, or ends with an error
\* that does not answer the condition
InfraError(v, e) ==
    CASE v = "Command" -> StartErr(e.cmd) # nil
      [] v = "CommandOutputMatches" -> CombinedOutputErr(e.cmd) # nil
      [] v = "KernelParameter" -> e.sysctl # nil
      [] v = "PHPConfig" -> e.php.err # nil
      [] v \in {"systemctlLoaded", "systemctlActive"} -> SystemctlErr(e) # nil
      [] OTHER -> FALSE

\* how the message of the unit begins when its probe ran and the condition is false
ConditionFalseMessages(v) ==
    CASE v = "Command" -> {"Command exited with non-zero exit code:"}
      [] v = "CommandOutputMatches" -> {"Command output did not match regexp"}
      [] v = "KernelParameter" -> {"Kernel parameter not set: "}
      [] v = "PHPConfig" -> {"PHP configuration variable not set",
                             "PHP variable did not match expected value"}
      [] v = "systemctlLoaded" -> {"Service not loaded"}
      [] v = "systemctlActive" -> {"Service not active"}
      [] OTHER -> {}

\* C12: an execution that met an infrastructure error has returned a Result with
\* code 1 whose message does not begin as the condition-is-false message of the
\* unit begins.
C12_InfraErrorReported ==
    (Executed /\ ~envChanged /\ variant \in InfraUnits /\ InfraError(variant, env)) =>
        /\ result.kind = "return"
        /\ result.code = 1
        /\ result.message = <<>> \/ result.message[1] \notin ConditionFalseMessages(variant)

\* port p is among the open ports observed for the protocol
OpenOn(e, proto, p) == p \in Range(e[proto])

\* C13: PortTCP(P) has passed exactly when P is open on TCP, PortUDP(P) exactly
\* when P is open on UDP, Port(P) exactly when P is open on either; a failing
\* Result has code 1 and its message holds every open port that was observed.
C13_PortOpen ==
    (Executed /\ ~envChanged /\ variant \in {"Port", "PortTCP", "PortUDP"}) =>
        LET P == chk.port
            open == CASE variant = "PortTCP" -> OpenOn(env, "tcp", P)
                      [] variant = "PortUDP" -> OpenOn(env, "udp", P)
                      [] OTHER -> OpenOn(env, "tcp", P) \/ OpenOn(env, "udp", P)
            observed == CASE variant = "PortTCP" -> Range(env.tcp)
                          [] variant = "PortUDP" -> Range(env.udp)
                          [] OTHER -> Range(env.tcp) \cup Range(env.udp)
        IN  /\ result.kind = "return"
            /\ (result.code = 0) <=> open
            /\ result.code # 0 =>
                  /\ result.code = 1
                  /\ \A p \in observed : Sprint(p) \in Range(result.message)

\* C13 witness: PortUDP(80) has failed with a TCP listener on 80 and UDP port 22
\* open, and Port(80) passes in that state.
C13_Witness ==
    /\ Executed
    /\ ~envChanged
    /\ variant = "PortUDP"
    /\ chk.port = 80
    /\ env.tcp = <<80>>
    /\ env.udp = <<22>>
    /\ result.code = 1
    /\ Port_Status(chk, env).code = 0

\* the lines of the model that match the Core-N temperature pattern with a value
\* an integer holds, and the temperature each of them states
CoreLines == {Core0Cool, Core0Hot, Core1Cool, Core0Cold}

CoreValue(line) ==
    CASE line \in {Core0Cool, Core1Cool} -> 40
      [] line = Core0Hot -> 98
      [] line = Core0Cold -> 0 - 99

\* the index of the first line that matches the pattern; 0 when no line does
FirstCoreLine(lines) ==
    IF \E i \in 1..Len(lines) : lines[i] \in CoreLines \cup {Core0Huge}
    THEN CHOOSE i \in 1..Len(lines) :
            /\ lines[i] \in CoreLines \cup {Core0Huge}
            /\ \A j \in 1..(i - 1) : lines[j] \notin CoreLines \cup {Core0Huge}
    ELSE 0

\* C14: with the output of sensors at hand, a temperature check whose first
\* matching line states the temperature V has passed exactly when V < max and
\* failed otherwise; with no matching line it has returned a failing Result.
C14_TempThreshold ==
    (Executed /\ ~envChanged /\ variant \in {"Temp", "ThunkTemp"}
       /\ env.sensors.err = nil) =>
        LET lines == env.sensors.lines
            i == FirstCoreLine(lines)
            max == IF variant = "Temp" THEN chk.max ELSE chk.arg
        IN  IF i = 0
            THEN result.kind = "return" /\ result.code # 0
            ELSE lines[i] \in CoreLines =>
                    /\ result.kind = "return"
                    /\ (result.code = 0) <=> (CoreValue(lines[i]) < max)

\* the data rows of the table of `route -n`: destination, gateway, interface
RouteRows(table) == SubSeq(table, 3, Len(table))

\* the row that determines the default gateway: the first whose gateway is not
\* "0.0.0.0"; 0 when there is none
DefaultRow(rows) ==
    LET nz == {i \in 1..Len(rows) : rows[i][2] # "0.0.0.0"} IN
    IF nz = {} THEN 0 ELSE CHOOSE i \in nz : \A j \in nz : i <= j

\* C15: with a routing table that was read, Gateway(ip) has passed exactly when
\* ip is the gateway of the first row with a non-zero gateway ("0.0.0.0" when
\* there is none), and GatewayInterface(name) exactly when name is the
\* interface of that same row ("" when there is none).
C15_GatewayTieBreak ==
    (Executed /\ ~envChanged /\ variant \in {"Gateway", "GatewayInterface"}
       /\ env.route # <<>> /\ env.route2 = env.route) =>
        LET rows == RouteRows(env.route)
            d == DefaultRow(rows)
            gateway == IF d = 0 THEN "0.0.0.0" ELSE rows[d][2]
            iface == IF d = 0 THEN "" ELSE rows[d][3]
        IN  /\ result.kind = "return"
            /\ (result.code = 0) <=>
                  IF variant = "Gateway" THEN chk.ip = gateway ELSE chk.name = iface

\* C15 witness: GatewayInterface("lo") has failed on a table whose first
\* non-zero gateway is on lo0 and whose later non-zero gateway is on lo.
C15_Witness ==
    /\ Executed
    /\ ~envChanged
    /\ variant = "GatewayInterface"
    /\ chk.name = "lo"
    /\ env.route = <<RouteTitle, RouteHeader, RouteLocal, RouteOther, RouteVia>>
    /\ env.route2 = env.route
    /\ result.code = 1

\* the units that test their parameter for membership in a list the system provides
ListUnits ==
    {"InterfaceExists", "Up", "Module", "Running", "RoutingTableInterface",
     "RoutingTableGateway", "RoutingTableDestination", "systemctlSockPath",
     "systemctlSockUnit", "systemctlTimer", "systemctlTimerLoaded"}

\* the entry of the checker's own process in the Command column of `ps aux`
OwnProcess == "/usr/bin/distributive"

\* the list the system provides to unit v, as a set
SystemList(v, e) ==
    CASE v = "InterfaceExists" -> {e.ifaces[i].Name : i \in 1..Len(e.ifaces)}
      [] v = "Up" -> {e.ifaces[i].Name : i \in {j \in 1..Len(e.ifaces) : e.ifaces[j].up}}
      [] v = "Module" -> Range(e.lsmod.column)
      [] v = "Running" -> Range(e.ps.column) \ {OwnProcess}
      [] v = "RoutingTableDestination" -> {r[1] : r \in Range(RouteRows(e.route))}
      [] v = "RoutingTableGateway" -> {r[2] : r \in Range(RouteRows(e.route))}
      [] v = "RoutingTableInterface" -> {r[3] : r \in Range(RouteRows(e.route))}
      [] v = "systemctlSockPath" -> {r[1] : r \in Range(e.sockets)}
      [] v = "systemctlSockUnit" -> {r[2] : r \in Range(e.sockets)}
      [] v = "systemctlTimer" -> Range(e.timers.active)
      [] v = "systemctlTimerLoaded" -> Range(e.timers.all)

\* the list could be read: the utility behind it ran
ListRead(v, e) ==
    CASE v \in {"RoutingTableDestination", "RoutingTableGateway", "RoutingTableInterface"}
           -> e.route # <<>>
      [] v = "Module" -> e.lsmod.err = nil
      [] v = "Running" -> e.ps.err = nil
      [] v \in WorkerNames -> e.systemctl = "ok"
      [] OTHER -> TRUE

\* C16: a list-membership unit has passed exactly when some element of the list
\* the system provided is equal to its parameter.
C16_ExactMembership ==
    (Executed /\ ~envChanged /\ variant \in ListUnits /\ ListRead(variant, env)) =>
        /\ result.kind = "return"
        /\ (result.code = 0) <=> (params[1] \in SystemList(variant, env))

\* C17: with the process list at hand, Running(name) has passed exactly when a
\* process other than the checker's own is named name.
C17_RunningExcludesOnlySelf ==
    (Executed /\ ~envChanged /\ variant = "Running" /\ env.ps.err = nil) =>
        /\ result.kind = "return"
        /\ (result.code = 0) <=> (chk.name \in Range(env.ps.column) \ {OwnProcess})

\* C18: Command.Status has returned code 0 exactly when the shell command was
\* started and Wait reported no error; in every other case it has returned code
\* 1, the message naming the exit status when the command exited with one and
\* naming 1 when Wait failed without one.
C18_CommandCollapse ==
    (Executed /\ ~envChanged /\ variant = "Command") =>
        LET started == env.cmd.start = ""
            zero == started /\ env.cmd.wait = "ok"
        IN  /\ result.kind = "return"
            /\ (result.code = 0) <=> zero
            /\ ~zero => result.code = 1
            /\ (started /\ env.cmd.wait = "exit") =>
                  Sprint(env.cmd.status) \in Range(result.message)
            /\ (started /\ env.cmd.wait = "io") => "1" \in Range(result.message)

\* C18 witness: Command.Status has returned code 1 for a command that exited
\* with status 3, and the message names 3.
C18_Witness ==
    /\ Executed
    /\ ~envChanged
    /\ variant = "Command"
    /\ env.cmd.start = ""
    /\ env.cmd.wait = "exit"
    /\ env.cmd.status = 3
    /\ result.code = 1
    /\ "3" \in Range(result.message)

\* the connection is established within the duration d, 0 meaning no timeout
EstablishedWithin(e, d) == e.latency >= 0 /\ (d = 0 \/ e.latency <= d)

\* C19: TCP and UDP have probed with the zero duration, so they pass exactly
\* when the one dial they make is established, however long it takes;
\* TCPTimeout and UDPTimeout have probed with the duration parsed from their
\* second parameter, so they pass exactly when that one dial is established
\* within it; what a second dial would have done never changes the Result.
C19_ConnectionTimeouts ==
    (Executed /\ ~envChanged /\ newErr = nil) =>
        /\ variant \in {"TCP", "UDP"} =>
              /\ result.kind = "return"
              /\ (result.code = 0) <=> EstablishedWithin(env, 0)
        /\ variant \in {"TCPTimeout", "UDPTimeout"} =>
              /\ result.kind = "return"
              /\ chk.timeout = ParseDuration(params[2]).val
              /\ (result.code = 0) <=> EstablishedWithin(env, ParseDuration(params[2]).val)

\* C19 witness: TCPTimeout with "5s" has failed on a dial that takes nine
\* seconds, although dialling again would have taken a millisecond.
C19_Witness ==
    /\ Executed
    /\ ~envChanged
    /\ variant = "TCPTimeout"
    /\ newErr = nil
    /\ params[2] = "5s"
    /\ env.latency = 9000000
    /\ env.redial = 1000
    /\ result.code = 1

\* net.IP.To4() is not nil: the address is an IPv4 address
IsIPv4(ip) == To4String(ip) # "<nil>"

\* C20: IP4 has passed only for an IPv4 address carried by the interface and
\* IP6 only for an IPv6 address carried by the interface.
C20_VersionSpecific ==
    (Executed /\ ~envChanged /\ newErr = nil /\ variant \in {"IP4", "IP6"}
              /\ result.kind = "return" /\ result.code = 0) =>
        /\ chk.ip \in Range(InterfaceIPs(env.ifaces, chk.name))
        /\ variant = "IP4" => IsIPv4(chk.ip)
        /\ variant = "IP6" => ~IsIPv4(chk.ip)

\* the commands that probe the state of systemd
ProbeCommands == {"show", "list-sockets", "list-timers", "list-unit-files"}

\* C21: every systemd worker that has run began with the existence check
\* `systemctl --version`, and when systemctl is missing it ended there, with
\* the missing utility reported and no probe command attempted.
C21_FailFast ==
    (Executed /\ ~envChanged /\ variant \in WorkerNames) =>
        LET commands == SystemctlCommands(variant, chk.parameters, env) IN
        /\ commands # <<>>
        /\ Head(commands) = "--version"
        /\ env.systemctl = "missing" =>
              /\ Range(commands) \cap ProbeCommands = {}
              /\ result = Fatal("Couldn't execute systemctl")

\* C22: with both reads of its table made, GatewayInterface has returned, and
\* passed exactly when its name is the interface of the row of the first read
\* that holds the default gateway; systemctlUnitFileStatus has returned, and
\* passed exactly when a row of the first read, the two trailing rows apart,
\* is the unit with the status.
C22_RowConsistency ==
    (Executed /\ ~envChanged) =>
        /\ (variant = "GatewayInterface" /\ env.route # <<>> /\ env.route2 # <<>>) =>
              LET rows == RouteRows(env.route)
                  d == DefaultRow(rows)
                  iface == IF d = 0 THEN "" ELSE rows[d][3]
              IN  /\ result.kind = "return"
                  /\ (result.code = 0) <=> (chk.name = iface)
        /\ (variant = "systemctlUnitFileStatus" /\ env.systemctl = "ok") =>
              /\ result.kind = "return"
              /\ (result.code = 0) <=>
                    \E i \in 1..(Len(env.unitfiles) - 2) :
                       env.unitfiles[i] = <<params[1], params[2]>>

\* C23: every worker registered by RegisterSystemctl reads its parameters only
\* at indices below its registered arity, the seven registered names are
\* pairwise distinct, and a worker that has run on a parameter list of its
\* registered length has read no parameter out of range.
C23_ArityCoversReads ==
    /\ \A i \in 1..Len(SystemctlChecks) :
          /\ \A k \in ParamIndices(SystemctlChecks[i].worker) : k < SystemctlChecks[i].arity
          /\ \A j \in 1..Len(SystemctlChecks) :
                i # j => SystemctlChecks[i].name # SystemctlChecks[j].name
    /\ (Executed /\ variant \in WorkerNames) =>
          /\ Len(chk.parameters) = RegisteredArity(variant)
          /\ \A k \in ParamIndices(variant) : ~OutOfRange(chk.parameters, k)
          /\ SystemctlCommands(variant, chk.parameters, env) # <<>>

\* C23 witness: systemctlUnitFileStatus has run on two parameters, read both
\* and returned a passing Result.
C23_Witness ==
    /\ Executed
    /\ ~envChanged
    /\ variant = "systemctlUnitFileStatus"
    /\ Len(chk.parameters) = 2
    /\ result.kind = "return"
    /\ result.code = 0

====
